---- MODULE Spec2Model ----
(***************************************************************************)
(* The web-content ingestion pipeline of                                   *)
(* web_scraper_20260212_124744/src/main.py: main's loop over scrape_url,   *)
(* HTTPClient.fetch with its pacing gate and its retries,                  *)
(* DataExtractor.extract and ResultHandler.save_results; next to it        *)
(* DataExtractor.extract called on its own with a str document, and        *)
(* divide of calculator_app_20260212_123702/src/main.py, the request        *)
(* handlers of flask_web_app_20260212_220452/src/main.py, RateLimiter of   *)
(* rate_limiter_design_small_20260212_144601/src/main.py and TodoApp of    *)
(* to_do_app_20260212_133309/src/main.py, each with a specification of     *)
(* its own.                                                                *)
(*                                                                         *)
(* Time is a discrete clock `now` that only sleeps and network calls      *)
(* advance.  An optional value (Python's None or a value) is a sequence    *)
(* of length at most one: None is << >> and a present value v is << v >>.  *)
(* A message is a tuple of its parts.                                      *)
(***************************************************************************)
EXTENDS Integers, Sequences, FiniteSets, TLC

(* ---- bounds of the model ---- *)
MaxUrls == 2
MaxRetries == 3
MaxDelay == 2
MaxNetTime == 1
MaxEvents == 4
MaxOperand == 2
MaxPairEvents == 2
MaxTodos == 3
TokenParts == 2
MaxCapacity == 2
MaxRate == 2
MaxClock == 3
MaxTasks == 3

(* ---- values ---- *)
None == << >>
Some(v) == << v >>
IsNone(o) == o = << >>
IsSome(o) == o # << >>

\* time.time() is seconds since the epoch: far larger than any delay.
StartTime == MaxDelay + 1

Urls == {"https://example.com", "https://example.org"}
Formats == {"json", "csv", "xml"}

\* A document is the sequence of events its markup makes the base parser emit,
\* together with the Python type that carries it (bytes or str).
TitleDoc == << [ev |-> "start", tag |-> "title", raw |-> "<title>", attrs |-> << >>, text |-> ""],
               [ev |-> "data", tag |-> "", raw |-> "", attrs |-> << >>, text |-> "Hi"],
               [ev |-> "end", tag |-> "title", raw |-> "", attrs |-> << >>, text |-> ""] >>
EmptyDoc == << >>

\* The bodies a server may answer with; response.read() returns bytes.
Bodies == {[type |-> "bytes", events |-> TitleDoc],
           [type |-> "bytes", events |-> EmptyDoc]}

SeqsUpTo(S, n) == UNION {[1..m -> S] : m \in 0..n}

\* ScraperConfig.__init__ stores its arguments without validating them.
Configs == [delay : 0..MaxDelay, max_retries : 0..MaxRetries,
            output_format : Formats]

\* The destination before the run: absent, or the output of an earlier run.
AbsentFile == [exists |-> FALSE, content |-> << >>]
OldFile == [exists |-> TRUE, content |-> << <<"old">> >>]

\* What one urlopen(...) / response.read() can end in: the body, a URLError
\* (a failure to connect or to send), an HTTPError (a non-success status), or
\* a timeout of the read, which the library raises as TimeoutError (an
\* OSError that is no URLError: only the sending of the request is wrapped).
AttemptOutcomes ==
    {[kind |-> "ok", body |-> b, cause |-> << >>] : b \in Bodies}
    \cup {[kind |-> "URLError", body |-> None, cause |-> <<"network failure">>],
          [kind |-> "HTTPError", body |-> None, cause |-> <<"HTTP Error 500">>],
          [kind |-> "TimeoutError", body |-> None, cause |-> <<"timed out">>]}

VARIABLES config, urls, file0, file, pc, idx, results, result,
          last_request_time, attempt, now, html,
          lastDispatch, lastGap, fetchTrace, fetchRet, saveArg, written, runError,
          gate, backoffs, scanner, calc, session, flask, bucket, app

vars == <<config, urls, file0, file, pc, idx, results, result,
          last_request_time, attempt, now, html,
          lastDispatch, lastGap, fetchTrace, fetchRet, saveArg, written, runError,
          gate, backoffs, scanner, calc, session, flask, bucket, app>>

pipelineVars == <<config, urls, file0, file, pc, idx, results, result,
                  last_request_time, attempt, now, html,
                  lastDispatch, lastGap, fetchTrace, fetchRet, saveArg, written, runError,
                  gate, backoffs>>


(* ---- ScrapingResult and exceptions ---- *)
NewResult(url) == [url |-> url, status |-> None, data |-> None, error |-> None]

Exc(type, msg) == [type |-> type, msg |-> msg]

\* Exception(f"Failed after {max_retries} attempts: {str(e)}")
RetriesExhausted(k, cause) == Exc("Exception", <<"Failed after", k, "attempts">> \o cause)
UnexpectedError == Exc("Exception", <<"Unexpected error in fetch">>)
BytesTypeError == Exc("TypeError", <<"can only concatenate str (not bytes) to str">>)
UnsupportedFormat(fmt) == Exc("ValueError", <<"Unsupported output format", fmt>>)
OpenFailure == Exc("OSError", <<"open failed">>)
WriteFailure == Exc("OSError", <<"write failed">>)

\* What a call ends in: the value it returns or the exception it raises.
Returned(v) == [raised |-> FALSE, e |-> None, value |-> v]
Raised(e) == [raised |-> TRUE, e |-> Some(e), value |-> None]

\* except (urllib.error.URLError, urllib.error.HTTPError) in fetch.
FetchCatches(kind) == kind \in {"URLError", "HTTPError"}

\* A faulty variant of Pow2: the sleep grows by two seconds an attempt.
Pow2Linear(n) == 2 * n

\* 2 ** attempt
RECURSIVE Pow2(_)
Pow2(n) == IF n = 0 THEN 1 ELSE 2 * Pow2(n - 1)

(* ---- HTMLParser ---- *)
NewParser == [title |-> "", links |-> << >>, meta |-> << >>, starttag_text |-> None]

\* dict(attrs)[name], None when the key is missing; a later pair wins.
RECURSIVE AttrLookup(_, _)
AttrLookup(attrs, name) ==
    IF attrs = << >> THEN None
    ELSE LET last == attrs[Len(attrs)]
         IN IF last[1] = name THEN Some(last[2])
            ELSE AttrLookup(SubSeq(attrs, 1, Len(attrs) - 1), name)

\* A faulty variant of MetaPut: the content a name already has is kept.
MetaPutKeepsFirst(meta, name, content) ==
    IF \E i \in 1..Len(meta) : meta[i][1] = name THEN meta
    ELSE Append(meta, <<name, content>>)

\* self.meta[name] = content on a mapping kept as a sequence of pairs in
\* insertion order (a dict keeps the position of a key that is overwritten).
MetaPut(meta, name, content) ==
    IF \E i \in 1..Len(meta) : meta[i][1] = name
    THEN [i \in 1..Len(meta) |-> IF meta[i][1] = name THEN <<name, content>> ELSE meta[i]]
    ELSE Append(meta, <<name, content>>)

RECURSIVE Hrefs(_)
Hrefs(attrs) ==
    IF attrs = << >> THEN << >>
    ELSE (IF attrs[1][1] = "href" THEN <<attrs[1][2]>> ELSE << >>) \o Hrefs(Tail(attrs))

handle_starttag(p, tag, attrs) ==
    IF tag = "a" THEN [p EXCEPT !.links = @ \o Hrefs(attrs)]
    ELSE IF tag = "meta"
         THEN LET n == AttrLookup(attrs, "name")
                  c == AttrLookup(attrs, "content")
              IN IF IsSome(n) /\ IsSome(c)
                 THEN [p EXCEPT !.meta = MetaPut(@, n[1], c[1])]
                 ELSE p
         ELSE p

\* data.strip() is taken as already applied to the text of the event.
handle_data(p, data) ==
    IF p.starttag_text = Some("<title>") THEN [p EXCEPT !.title = data] ELSE p

\* One event of the base parser's goahead loop: parse_starttag records the
\* raw text of the tag before it calls handle_starttag.
ParserStep(p, e) ==
    IF e.ev = "start"
    THEN handle_starttag([p EXCEPT !.starttag_text = Some(e.raw)], e.tag, e.attrs)
    ELSE IF e.ev = "data" THEN handle_data(p, e.text)
    ELSE p

RECURSIVE Scan(_, _)
Scan(p, events) ==
    IF events = << >> THEN p ELSE Scan(ParserStep(p, Head(events)), Tail(events))

get_extracted_data(p) == [title |-> p.title, links |-> p.links, meta |-> p.meta]

\* HTMLParser.feed: self.rawdata = self.rawdata + data, with rawdata a str,
\* raises TypeError when data is bytes.
feed(p, doc) ==
    IF doc.type = "str"
    THEN [raised |-> FALSE, e |-> None, parser |-> Scan(p, doc.events)]
    ELSE [raised |-> TRUE, e |-> Some(BytesTypeError), parser |-> p]

\* A faulty variant of extract: the parser goes on from what the call before
\* it had gathered, as with a parser or lists shared between the calls.
extractContinues(doc) ==
    LET prev == IF session.outs = << >> THEN NewParser
                ELSE LET r == session.outs[Len(session.outs)].value[1]
                     IN [title |-> r.title, links |-> r.links, meta |-> r.meta,
                         starttag_text |-> None]
        fed == feed(prev, doc)
    IN IF fed.raised
       THEN [raised |-> TRUE, e |-> fed.e, value |-> None]
       ELSE [raised |-> FALSE, e |-> None, value |-> Some(get_extracted_data(fed.parser))]

\* DataExtractor.extract
extract(doc) ==
    LET fed == feed(NewParser, doc)
    IN IF fed.raised
       THEN [raised |-> TRUE, e |-> fed.e, value |-> None]
       ELSE [raised |-> FALSE, e |-> None, value |-> Some(get_extracted_data(fed.parser))]

(* ---- ResultHandler.save_results: the encodings ---- *)
\* A JSON value is the tuple of its kind and its content: <<"null">>,
\* <<"number", n>>, <<"string", s>>, <<"array", items>>, <<"object", members>>,
\* a member being the pair of its key and its value.
JsonNull == <<"null">>

\* A faulty variant of JsonOfStatus: an absent status is written as 0.
JsonOfStatusZero(st) == IF IsNone(st) THEN <<"number", 0>> ELSE <<"number", st[1]>>

\* json.dump of an Optional[int]: None is null, an int is a number.
JsonOfStatus(st) == IF IsNone(st) THEN JsonNull ELSE <<"number", st[1]>>

\* json.dump of an Optional[str]: None is null, a str is a string.
JsonOfText(t) == IF IsNone(t) THEN JsonNull ELSE <<"string", t[1]>>

\* json.dump of a dict key: a str is kept, None becomes the key "null".
JsonKey(k) == IF IsNone(k) THEN "null" ELSE k[1]

\* json.dump of Optional[ExtractedData].
JsonOfData(d) ==
    IF IsNone(d) THEN JsonNull
    ELSE <<"object",
           << <<"title", <<"string", d[1].title>> >>,
              <<"links", <<"array", [i \in 1..Len(d[1].links) |-> JsonOfText(d[1].links[i])]>> >>,
              <<"meta", <<"object", [i \in 1..Len(d[1].meta) |->
                             <<JsonKey(d[1].meta[i][1]), JsonOfText(d[1].meta[i][2])>>]>> >> >> >>

\* json.dump: one object per outcome, keys url, status, data, error.
JsonEntry(r) ==
    <<"{", <<"url", <<"string", r.url>> >>, <<"status", JsonOfStatus(r.status)>>,
           <<"data", JsonOfData(r.data)>>, <<"error", JsonOfText(r.error)>>, "}">>

\* A CSV cell is the tuple of the pieces of its text; << >> is the empty string.
\* csv.writer writes None as the empty string and a number as its digits.
StatusCell(status) == IF IsNone(status) THEN << >> ELSE <<"200">>

\* ", ".join(links) of links that are all str: the pieces of the joined text.
RECURSIVE JoinLinks(_)
JoinLinks(links) ==
    IF links = << >> THEN << >>
    ELSE IF Len(links) = 1 THEN <<links[1][1]>>
    ELSE <<links[1][1], ", ">> \o JoinLinks(Tail(links))

\* ", ".join(links) raises TypeError on an element that is not a str.
JoinTypeError == Exc("TypeError", <<"sequence item: expected str instance, NoneType found">>)
JoinRaises(links) == \E i \in 1..Len(links) : IsNone(links[i])

CsvHeader == << <<"URL">>, <<"Status">>, <<"Title">>, <<"Links">>, <<"Error">> >>

CsvRow(r) ==
    << <<r.url>>,
       StatusCell(r.status),
       IF IsSome(r.data) THEN <<r.data[1].title>> ELSE << >>,
       IF IsSome(r.data) THEN JoinLinks(r.data[1].links) ELSE << >>,
       IF IsSome(r.error) THEN r.error[1] ELSE << >> >>

\* The row of one outcome is built and handed to writer.writerow.
WriteRow(r) ==
    IF IsSome(r.data) /\ JoinRaises(r.data[1].links) THEN Raised(JoinTypeError)
    ELSE Returned(CsvRow(r))

\* The csv branch of save_results on any outcomes: the header row, then the
\* rows one by one until one of them raises.
RECURSIVE WriteRows(_, _)
WriteRows(rs, done) ==
    IF rs = << >> THEN [raised |-> FALSE, e |-> None, content |-> done]
    ELSE LET w == WriteRow(Head(rs))
         IN IF w.raised THEN [raised |-> TRUE, e |-> w.e, content |-> done]
            ELSE WriteRows(Tail(rs), Append(done, w.value))

SaveCsv(rs) == WriteRows(rs, <<CsvHeader>>)

\* A faulty variant of Encode: the outcomes that carry an error are left out.
EncodeSkipsFailed(fmt, rs) ==
    LET ok == SelectSeq(rs, LAMBDA r : IsNone(r.error))
    IN IF fmt = "json"
       THEN << <<"[">> >> \o [i \in 1..Len(ok) |-> JsonEntry(ok[i])] \o << <<"]">> >>
       ELSE <<CsvHeader>> \o [i \in 1..Len(ok) |-> CsvRow(ok[i])]

\* The pieces save_results writes, in the order it writes them.
Encode(fmt, rs) ==
    IF fmt = "json"
    THEN << <<"[">> >> \o [i \in 1..Len(rs) |-> JsonEntry(rs[i])] \o << <<"]">> >>
    ELSE <<CsvHeader>> \o [i \in 1..Len(rs) |-> CsvRow(rs[i])]

\* A faulty variant of OpenW: the file is opened for appending.
OpenAppend(f) == [exists |-> TRUE, content |-> f.content]

\* open(config.output_path, "w") creates the file or truncates it.
OpenW(f) == [exists |-> TRUE, content |-> << >>]

(* ---- the run ---- *)
\* What a call of fetch has done so far: the number of network attempts, the
\* first attempt that succeeded with its body, the cause of the last failure.
NoAttempts == [n |-> 0, firstOk |-> None, lastFailure |-> None]

Attempted(t, out) ==
    [n |-> t.n + 1,
     firstOk |-> IF out.kind = "ok" /\ IsNone(t.firstOk)
                 THEN Some([i |-> t.n + 1, body |-> out.body]) ELSE t.firstOk,
     lastFailure |-> IF out.kind # "ok" THEN Some([kind |-> out.kind, cause |-> out.cause])
                     ELSE t.lastFailure]

\* No document is being examined on its own; no division is under way.
NoScan == [doc |-> None, out |-> None, saved |-> None]
NoCalc == [a |-> None, b |-> None, out |-> None]

\* No documents are being extracted one after the other; no limiter is built.
NoSession == [docs |-> << >>, outs |-> << >>]
NoBucket == [capacity |-> 0, refill_rate |-> 0, tokens |-> 0, last_refill |-> 0,
             clock |-> 0, run |-> 0, last |-> None]

\* The Flask module as imported (todos = []) and a TodoApp with no tasks and
\* no storage file.
EmptyStore == [todos |-> << >>, resp |-> None]
EmptyApp == [tasks |-> << >>, file |-> None, last |-> None]

\* The other programs of the repository while one of them is looked at.
OthersAtRest(vs) ==
    /\ ("scanner" \in vs \/ scanner = NoScan)
    /\ ("calc" \in vs \/ calc = NoCalc)
    /\ ("session" \in vs \/ session = NoSession)
    /\ ("flask" \in vs \/ flask = EmptyStore)
    /\ ("bucket" \in vs \/ bucket = NoBucket)
    /\ ("app" \in vs \/ app = EmptyApp)

\* The pipeline before main's loop starts.
RunStart ==
    /\ file = file0
    /\ pc = "main"
    /\ idx = 0
    /\ results = << >>
    /\ result = None
    /\ last_request_time = 0
    /\ attempt = 0
    /\ now = StartTime
    /\ html = None
    /\ lastDispatch = None
    /\ lastGap = None
    /\ fetchTrace = NoAttempts
    /\ fetchRet = None
    /\ saveArg = None
    /\ written = 0
    /\ runError = None
    /\ gate = None
    /\ backoffs = << >>

\* A run of main; no document is examined on its own and no calculation is
\* under way.
Init ==
    /\ config \in Configs
    /\ urls \in SeqsUpTo(Urls, MaxUrls)
    /\ file0 \in {AbsentFile, OldFile}
    /\ RunStart
    /\ OthersAtRest({})

\* A faulty variant of ScrapeExcept: the handler re-raises, and the run dies with it.
ScrapeExceptReraises(r, e) == [next |-> "failed", result |-> r, runError |-> Some(e)]

\* A faulty variant of ScrapeExcept: the handler swallows the failure without recording it.
ScrapeExceptSwallows(r, e) == [next |-> "append", result |-> r, runError |-> None]

\* scrape_url's `except Exception as e`: the failure becomes the outcome's error.
ScrapeExcept(r, e) == [next |-> "append", result |-> [r EXCEPT !.error = Some(e.msg)], runError |-> None]

\* main: the next URL of the loop; scrape_url builds the empty outcome and a
\* new HTTPClient, whose last_request_time is 0, and calls fetch.
ScrapeStart ==
    /\ pc = "main"
    /\ idx < Len(urls)
    /\ result' = Some(NewResult(urls[idx + 1]))
    /\ last_request_time' = 0
    /\ attempt' = 0
    /\ fetchTrace' = NoAttempts
    /\ fetchRet' = None
    /\ html' = None
    /\ gate' = None
    /\ backoffs' = << >>
    /\ pc' = "fetch"
    /\ UNCHANGED <<scanner, calc, session, flask, bucket, app>>
    /\ UNCHANGED <<config, urls, file0, file, idx, results, now, lastDispatch, lastGap,
                   saveArg, written, runError>>

\* The handler's effect on the outcome, the position and the run.
Handled(h) ==
    /\ result' = Some(h.result)
    /\ pc' = h.next
    /\ runError' = h.runError

\* A faulty variant of SleepNeeded: the call sleeps the whole delay whatever
\* time has gone by.
SleepWholeDelay(elapsed, delay) == delay

\* A faulty variant of SleepNeeded: the call never sleeps.
SleepNever(elapsed, delay) == 0

\* if elapsed < self.config.delay: time.sleep(self.config.delay - elapsed)
SleepNeeded(elapsed, delay) == IF elapsed < delay THEN delay - elapsed ELSE 0

\* HTTPClient._enforce_delay at the head of an iteration of fetch's loop; gate
\* remembers what the call saw and did: the time recorded by the call before
\* it, the time gone by since, and the time it slept.
EnforceDelay ==
    /\ pc = "fetch"
    /\ attempt < config.max_retries
    /\ LET elapsed == now - last_request_time
           slept == SleepNeeded(elapsed, config.delay)
       IN /\ now' = now + slept
          /\ last_request_time' = now + slept
          /\ gate' = Some([since |-> last_request_time, elapsed |-> elapsed,
                           slept |-> slept])
    /\ pc' = "urlopen"
    /\ UNCHANGED backoffs
    /\ UNCHANGED <<scanner, calc, session, flask, bucket, app>>
    /\ UNCHANGED <<config, urls, file0, file, idx, results, result, attempt, html,
                   lastDispatch, lastGap, fetchTrace, fetchRet, saveArg, written, runError>>

\* fetch's loop ran zero times: raise Exception("Unexpected error in fetch").
FetchUnexpected ==
    /\ pc = "fetch"
    /\ attempt >= config.max_retries
    /\ fetchRet' = Some([raised |-> TRUE, e |-> UnexpectedError, body |-> None])
    /\ Handled(ScrapeExcept(result[1], UnexpectedError))
    /\ UNCHANGED <<gate, backoffs>>
    /\ UNCHANGED <<scanner, calc, session, flask, bucket, app>>
    /\ UNCHANGED <<config, urls, file0, file, idx, results, last_request_time, attempt,
                   now, html, lastDispatch, lastGap, fetchTrace, saveArg, written>>

\* One network attempt: urlopen(req, timeout) and response.read().
UrlOpen(d) ==
    /\ pc = "urlopen"
    /\ \E out \in AttemptOutcomes :
        /\ lastDispatch' = Some([time |-> now, url |-> idx + 1])
        /\ lastGap' = IF IsNone(lastDispatch) THEN None
                      ELSE Some([gap |-> now - lastDispatch[1].time,
                                 across |-> lastDispatch[1].url # idx + 1])
        /\ now' = now + d
        /\ fetchTrace' = Attempted(fetchTrace, out)
        /\ IF out.kind = "ok"
           THEN /\ fetchRet' = Some([raised |-> FALSE, e |-> None, body |-> Some(out.body)])
                /\ html' = Some(out.body)
                /\ result' = Some([result[1] EXCEPT !.status = Some(200)])
                /\ pc' = "extract"
                /\ UNCHANGED runError
           ELSE IF FetchCatches(out.kind)
           THEN IF attempt = config.max_retries - 1
                THEN LET e == RetriesExhausted(config.max_retries, out.cause)
                     IN /\ fetchRet' = Some([raised |-> TRUE, e |-> e, body |-> None])
                        /\ Handled(ScrapeExcept(result[1], e))
                        /\ UNCHANGED html
                ELSE /\ pc' = "backoff"
                     /\ UNCHANGED <<fetchRet, html, result, runError>>
           ELSE LET e == Exc(out.kind, out.cause)
                IN /\ fetchRet' = Some([raised |-> TRUE, e |-> e, body |-> None])
                   /\ Handled(ScrapeExcept(result[1], e))
                   /\ UNCHANGED html
    /\ UNCHANGED <<gate, backoffs>>
    /\ UNCHANGED <<scanner, calc, session, flask, bucket, app>>
    /\ UNCHANGED <<config, urls, file0, file, idx, results, last_request_time, attempt,
                   saveArg, written>>

\* time.sleep(2 ** attempt), then the next iteration of the loop; backoffs
\* lists the sleeps of this kind the call of fetch has made.
Backoff ==
    /\ pc = "backoff"
    /\ now' = now + Pow2(attempt)
    /\ backoffs' = Append(backoffs, [after |-> attempt, slept |-> Pow2(attempt)])
    /\ attempt' = attempt + 1
    /\ pc' = "fetch"
    /\ UNCHANGED gate
    /\ UNCHANGED <<scanner, calc, session, flask, bucket, app>>
    /\ UNCHANGED <<config, urls, file0, file, idx, results, result, last_request_time,
                   html, lastDispatch, lastGap, fetchTrace, fetchRet, saveArg, written, runError>>

\* result["data"] = DataExtractor.extract(html, {})
Extract ==
    /\ pc = "extract"
    /\ LET x == extract(html[1])
       IN IF x.raised
          THEN Handled(ScrapeExcept(result[1], x.e[1]))
          ELSE /\ result' = Some([result[1] EXCEPT !.data = x.value])
               /\ pc' = "append"
               /\ UNCHANGED runError
    /\ UNCHANGED <<gate, backoffs>>
    /\ UNCHANGED <<scanner, calc, session, flask, bucket, app>>
    /\ UNCHANGED <<config, urls, file0, file, idx, results, last_request_time, attempt,
                   now, html, lastDispatch, lastGap, fetchTrace, fetchRet, saveArg, written>>

\* A faulty variant of AppendResult: only the outcomes without an error are kept.
AppendResultSkipsFailed(rs, r) == IF IsSome(r.error) THEN rs ELSE Append(rs, r)

\* results.append(result)
AppendResult(rs, r) == Append(rs, r)

\* scrape_url returns and main appends the outcome; the locals of the call
\* (the client, the bytes) are gone.
MainAppend ==
    /\ pc = "append"
    /\ results' = AppendResult(results, result[1])
    /\ idx' = idx + 1
    /\ pc' = "main"
    /\ result' = None
    /\ html' = None
    /\ last_request_time' = 0
    /\ attempt' = 0
    /\ fetchTrace' = NoAttempts
    /\ fetchRet' = None
    /\ gate' = None
    /\ backoffs' = << >>
    /\ UNCHANGED <<scanner, calc, session, flask, bucket, app>>
    /\ UNCHANGED <<config, urls, file0, file, now, lastDispatch, lastGap, saveArg,
                   written, runError>>

\* A faulty variant of SaveBranch: the destination is opened before the format is looked at.
SaveBranchOpensFirst(fmt, f) ==
    IF fmt \in {"json", "csv"}
    THEN [opens |-> TRUE, file |-> OpenW(f), raises |-> None]
    ELSE [opens |-> FALSE, file |-> OpenW(f), raises |-> Some(UnsupportedFormat(fmt))]

\* The branch of save_results on config.output_format: what the call does
\* before the first piece is written.
SaveBranch(fmt, f) ==
    IF fmt \in {"json", "csv"}
    THEN [opens |-> TRUE, file |-> OpenW(f), raises |-> None]
    ELSE [opens |-> FALSE, file |-> f, raises |-> Some(UnsupportedFormat(fmt))]

\* main: the loop is over, save_results(results, config) is called.
SaveResults ==
    /\ pc = "main"
    /\ idx = Len(urls)
    /\ saveArg' = Some(results)
    /\ written' = 0
    /\ LET b == SaveBranch(config.output_format, file)
       IN IF b.opens
          THEN \/ /\ file' = b.file
                  /\ pc' = "write"
                  /\ UNCHANGED runError
               \/ /\ pc' = "failed"            \* open() itself fails
                  /\ runError' = Some(OpenFailure)
                  /\ UNCHANGED file
          ELSE /\ file' = b.file
               /\ pc' = "failed"
               /\ runError' = b.raises
    /\ UNCHANGED <<gate, backoffs>>
    /\ UNCHANGED <<scanner, calc, session, flask, bucket, app>>
    /\ UNCHANGED <<config, urls, file0, idx, results, result, last_request_time, attempt,
                   now, html, lastDispatch, lastGap, fetchTrace, fetchRet>>

\* One piece of the encoding reaches the file, or the write fails, or the
\* encoding is complete and the file is closed.
Write ==
    /\ pc = "write"
    /\ LET full == Encode(config.output_format, saveArg[1])
       IN \/ /\ written < Len(full)
             /\ file' = [file EXCEPT !.content = Append(@, full[written + 1])]
             /\ written' = written + 1
             /\ UNCHANGED <<pc, runError>>
          \/ /\ written < Len(full)
             /\ pc' = "failed"
             /\ runError' = Some(WriteFailure)
             /\ UNCHANGED <<file, written>>
          \/ /\ written = Len(full)
             /\ pc' = "done"
             /\ UNCHANGED <<file, written, runError>>
    /\ UNCHANGED <<gate, backoffs>>
    /\ UNCHANGED <<scanner, calc, session, flask, bucket, app>>
    /\ UNCHANGED <<config, urls, file0, idx, results, result, last_request_time, attempt,
                   now, html, lastDispatch, lastGap, fetchTrace, fetchRet, saveArg>>

\* The run over an instantaneous network.
Next ==
    \/ ScrapeStart
    \/ EnforceDelay
    \/ FetchUnexpected
    \/ UrlOpen(0)
    \/ Backoff
    \/ Extract
    \/ MainAppend
    \/ SaveResults
    \/ Write

Spec == Init /\ [][Next]_vars

\* The run as far as its control flow goes: the pacing delay, the text of a
\* URL and the earlier content of the destination decide no branch of it.
\* Every step is a step of one sequential program, so a step that can be
\* taken is taken.
FairInit ==
    /\ Init
    /\ config.delay = 0
    /\ file0 = OldFile
    /\ \A i \in 1..Len(urls) : urls[i] = "https://example.com"

FairSpec == FairInit /\ [][Next]_vars /\ WF_vars(Next)

\* The loop of main with network calls that take time; the destination and
\* the format play no part in it.
TimedInit ==
    /\ Init
    /\ config.output_format = "json"
    /\ file0 = AbsentFile
    /\ \A i \in 1..Len(urls) : urls[i] = "https://example.com"

TimedNext ==
    \/ ScrapeStart
    \/ EnforceDelay
    \/ FetchUnexpected
    \/ \E d \in 0..MaxNetTime : UrlOpen(d)
    \/ Backoff
    \/ Extract
    \/ MainAppend

TimedSpec == TimedInit /\ [][TimedNext]_vars

(* ---- DataExtractor.extract on its own ---- *)
\* The events of the markup of a document that is handed over as a str.  An
\* attribute is the pair of its name and its value; the value of an attribute
\* written without one (<a href>) is None.
StartTag(tag, raw, attrs) == [ev |-> "start", tag |-> tag, raw |-> raw, attrs |-> attrs, text |-> ""]
EndTag(tag) == [ev |-> "end", tag |-> tag, raw |-> "", attrs |-> << >>, text |-> ""]
Text(t) == [ev |-> "data", tag |-> "", raw |-> "", attrs |-> << >>, text |-> t]

TitleOpen == StartTag("title", "<title>", << >>)
AnchorA == StartTag("a", "<a href=/a>", << <<"href", Some("/a")>> >>)
AnchorBare == StartTag("a", "<a href>", << <<"href", None>> >>)
LinkTag == StartTag("link", "<link href=/s>", << <<"href", Some("/s")>> >>)
MetaXY == StartTag("meta", "<meta name=x content=y>",
                   << <<"name", Some("x")>>, <<"content", Some("y")>> >>)
MetaXZ == StartTag("meta", "<meta name=x content=z>",
                   << <<"name", Some("x")>>, <<"content", Some("z")>> >>)
MetaKY == StartTag("meta", "<meta name=k content=y>",
                   << <<"name", Some("k")>>, <<"content", Some("y")>> >>)
MetaNameOnly == StartTag("meta", "<meta name=x>", << <<"name", Some("x")>> >>)
MetaContentOnly == StartTag("meta", "<meta content=y>", << <<"content", Some("y")>> >>)

\* Text("") is a run of white space, which data.strip() empties.
Markup == {TitleOpen, EndTag("title"), Text("Hi"), Text("tail"), Text(""),
           AnchorA, AnchorBare, LinkTag, MetaXY, MetaXZ, MetaKY, MetaNameOnly,
           MetaContentOnly}

StrDocs == {[type |-> "str", events |-> es] : es \in SeqsUpTo(Markup, MaxEvents)}

ScanInit ==
    /\ config = [delay |-> 0, max_retries |-> 0, output_format |-> "json"]
    /\ urls = << >>
    /\ file0 = AbsentFile
    /\ RunStart
    /\ scanner \in {[doc |-> Some(d), out |-> None, saved |-> None] : d \in StrDocs}
    /\ OthersAtRest({"scanner"})

\* DataExtractor.extract(html, rules) on a new parser.
ExtractDocument ==
    /\ IsSome(scanner.doc)
    /\ IsNone(scanner.out)
    /\ scanner' = [scanner EXCEPT !.out = Some(extract(scanner.doc[1]))]
    /\ UNCHANGED <<config, urls, file0, file, pc, idx, results, result,
                   last_request_time, attempt, now, html, lastDispatch, lastGap,
                   fetchTrace, fetchRet, saveArg, written, runError, gate, backoffs, calc,
                   session, flask, bucket, app>>

\* The outcomes save_results is handed in the csv format: one of a URL that
\* failed and one that carries the record extract returned.
OutcomesWith(data) ==
    << [url |-> "https://example.org", status |-> None, data |-> None,
        error |-> Some(<<"timed out">>)],
       [url |-> "https://example.com", status |-> Some(200), data |-> data,
        error |-> None] >>

\* ResultHandler.save_results(results, config) with output_format "csv".
SaveExtracted ==
    /\ IsSome(scanner.out)
    /\ IsNone(scanner.saved)
    /\ scanner' = [scanner EXCEPT !.saved = Some(SaveCsv(OutcomesWith(scanner.out[1].value)))]
    /\ UNCHANGED pipelineVars
    /\ UNCHANGED <<calc, session, flask, bucket, app>>

ScanNext ==
    \/ ExtractDocument
    \/ SaveExtracted

ScanSpec == ScanInit /\ [][ScanNext]_vars

(* ---- DataExtractor.extract on one document after another ---- *)
PairMarkup == {TitleOpen, Text("Hi"), AnchorA, MetaXY, MetaXZ}
PairDocs == {[type |-> "str", events |-> es] : es \in SeqsUpTo(PairMarkup, MaxPairEvents)}

\* One process extracts document b, then document a, then b again.
SessionInit ==
    /\ config = [delay |-> 0, max_retries |-> 0, output_format |-> "json"]
    /\ urls = << >>
    /\ file0 = AbsentFile
    /\ RunStart
    /\ session \in {[docs |-> <<b, a, b>>, outs |-> << >>] : a \in PairDocs, b \in PairDocs}
    /\ OthersAtRest({"session"})

\* The next call DataExtractor.extract(html, rules); the records returned so
\* far stay with the caller.
ExtractNext ==
    /\ Len(session.outs) < Len(session.docs)
    /\ session' = [session EXCEPT
                      !.outs = Append(@, extract(session.docs[Len(session.outs) + 1]))]
    /\ UNCHANGED pipelineVars
    /\ UNCHANGED <<scanner, calc, flask, bucket, app>>

SessionNext == ExtractNext

SessionSpec == SessionInit /\ [][SessionNext]_vars

(* ---- the Flask to-do store ---- *)
\* The body of a request: not JSON, or a JSON object that may carry a task
\* and a completed member.
TaskTexts == {"a", "b"}
RequestBodies == [json : BOOLEAN, task : {None} \cup {Some(t) : t \in TaskTexts},
            completed : {None} \cup {Some(c) : c \in BOOLEAN}]
TodoIds == 1..(MaxTodos + 1)

\* next((todo for todo in todos if todo.id == todo_id), None): the position
\* of the first todo with the id.
FirstWithId(todos, id) ==
    LET S == {i \in 1..Len(todos) : todos[i].id = id}
    IN IF S = {} THEN None ELSE Some(CHOOSE i \in S : \A k \in S : i <= k)

\* ToDo(id=len(todos) + 1, task=data['task'], completed=data.get('completed', False))
NewTodo(todos, body) ==
    [id |-> Len(todos) + 1, task |-> body.task[1],
     completed |-> IF IsSome(body.completed) THEN body.completed[1] ELSE FALSE]

\* todos = [t for t in todos if t.id != todo_id]
WithoutId(todos, id) == SelectSeq(todos, LAMBDA t : t.id # id)

FlaskInit ==
    /\ config = [delay |-> 0, max_retries |-> 0, output_format |-> "json"]
    /\ urls = << >>
    /\ file0 = AbsentFile
    /\ RunStart
    /\ flask = EmptyStore
    /\ OthersAtRest({"flask"})

FlaskFrame ==
    /\ UNCHANGED pipelineVars
    /\ UNCHANGED <<scanner, calc, session, bucket, app>>

\* GET /todos
get_todos ==
    /\ flask' = [flask EXCEPT !.resp = Some(200)]
    /\ FlaskFrame

\* GET /todos/<id>
get_todo ==
    /\ \E id \in TodoIds :
          flask' = [flask EXCEPT !.resp = IF IsNone(FirstWithId(flask.todos, id))
                                          THEN Some(404) ELSE Some(200)]
    /\ FlaskFrame

\* POST /todos
create_todo ==
    /\ Len(flask.todos) < MaxTodos
    /\ \E body \in RequestBodies :
          IF ~body.json \/ IsNone(body.task)
          THEN flask' = [flask EXCEPT !.resp = Some(400)]
          ELSE flask' = [todos |-> Append(flask.todos, NewTodo(flask.todos, body)),
                         resp |-> Some(201)]
    /\ FlaskFrame

\* PUT /todos/<id>
update_todo ==
    /\ \E id \in TodoIds, body \in RequestBodies :
          LET at == FirstWithId(flask.todos, id)
          IN IF IsNone(at) THEN flask' = [flask EXCEPT !.resp = Some(404)]
             ELSE IF ~body.json THEN flask' = [flask EXCEPT !.resp = Some(400)]
             ELSE flask' =
                    [todos |-> [flask.todos EXCEPT
                                  ![at[1]].task = IF IsSome(body.task) THEN body.task[1] ELSE @,
                                  ![at[1]].completed =
                                      IF IsSome(body.completed) THEN body.completed[1] ELSE @],
                     resp |-> Some(200)]
    /\ FlaskFrame

\* DELETE /todos/<id>
delete_todo ==
    /\ \E id \in TodoIds :
          IF IsNone(FirstWithId(flask.todos, id))
          THEN flask' = [flask EXCEPT !.resp = Some(404)]
          ELSE flask' = [todos |-> WithoutId(flask.todos, id), resp |-> Some(200)]
    /\ FlaskFrame

FlaskNext ==
    \/ get_todos
    \/ get_todo
    \/ create_todo
    \/ update_todo
    \/ delete_todo

FlaskSpec == FlaskInit /\ [][FlaskNext]_vars

(* ---- the token bucket RateLimiter ---- *)
\* Tokens are counted in parts, TokenParts of them to a token, so that a
\* capacity or a rate may be a fraction; the clock counts whole seconds.
Min(a, b) == IF a <= b THEN a ELSE b

\* A faulty variant of Refilled: the bucket is not capped.
RefilledUncapped(b) == b.tokens + b.refill_rate * (b.clock - b.last_refill)

\* min(self.capacity, self.tokens + self.refill_rate * elapsed)
Refilled(b) == Min(b.capacity, b.tokens + b.refill_rate * (b.clock - b.last_refill))

\* RateLimiter(capacity, refill_rate) with both positive: the bucket is full.
BucketInit ==
    /\ config = [delay |-> 0, max_retries |-> 0, output_format |-> "json"]
    /\ urls = << >>
    /\ file0 = AbsentFile
    /\ RunStart
    /\ bucket \in {[capacity |-> c, refill_rate |-> r, tokens |-> c, last_refill |-> 0,
                     clock |-> 0, run |-> 0, last |-> None] :
                        c \in 1..(MaxCapacity * TokenParts), r \in 1..MaxRate}
    /\ OthersAtRest({"bucket"})

BucketFrame ==
    /\ UNCHANGED pipelineVars
    /\ UNCHANGED <<scanner, calc, session, flask, app>>

\* allow(): _refill_tokens(), then a token is taken if there is one.  last
\* keeps what the call found and returned, run the calls allowed since the
\* clock last moved.
allow ==
    /\ LET t == Refilled(bucket)
           ok == t >= TokenParts
       IN bucket' = [bucket EXCEPT
                       !.tokens = IF ok THEN t - TokenParts ELSE t,
                       !.last_refill = bucket.clock,
                       !.run = IF ok THEN @ + 1 ELSE @,
                       !.last = Some([tokens |-> bucket.tokens,
                                      last_refill |-> bucket.last_refill,
                                      clock |-> bucket.clock, ret |-> ok])]
    /\ BucketFrame

\* A second goes by.
Tick ==
    /\ bucket.clock < MaxClock
    /\ bucket' = [bucket EXCEPT !.clock = @ + 1, !.run = 0, !.last = None]
    /\ BucketFrame

BucketNext ==
    \/ allow
    \/ Tick

BucketSpec == BucketInit /\ [][BucketNext]_vars

(* ---- TodoApp ---- *)
\* What add_task is given: a text with white space around it, or white space.
Descriptions == {" b ", "  "}

\* description.strip()
Strip(d) == IF d = " b " THEN "b" ELSE IF d = "  " THEN "" ELSE d

TaskIds == 0..(MaxTasks + 1)

\* _find_task: the position of the first task with the id, or None.
FindTask(tasks, id) ==
    LET S == {i \in 1..Len(tasks) : tasks[i].id = id}
    IN IF S = {} THEN None ELSE Some(CHOOSE i \in S : \A k \in S : i <= k)

\* self.tasks.remove(task): the first task equal to it goes.
Remove(tasks, task) ==
    LET S == {i \in 1..Len(tasks) : tasks[i] = task}
        at == CHOOSE i \in S : \A k \in S : i <= k
    IN SubSeq(tasks, 1, at - 1) \o SubSeq(tasks, at + 1, Len(tasks))

\* A faulty variant of Renumber: the ids are left as they are.
RenumberNot(tasks) == tasks

\* for i, task in enumerate(self.tasks): task["id"] = i + 1
Renumber(tasks) == [i \in 1..Len(tasks) |-> [tasks[i] EXCEPT !.id = i]]

\* What the last call was, what it was given, what it returned (ok is False
\* for the None of add_task and the False of the others) and the tasks it
\* found.
Called(op, desc, id, ok, ret) ==
    Some([op |-> op, desc |-> desc, id |-> id, ok |-> ok, ret |-> ret,
          before |-> app.tasks])

\* TodoApp() where no storage file exists.
AppInit ==
    /\ config = [delay |-> 0, max_retries |-> 0, output_format |-> "json"]
    /\ urls = << >>
    /\ file0 = AbsentFile
    /\ RunStart
    /\ app = EmptyApp
    /\ OthersAtRest({"app"})

AppFrame ==
    /\ UNCHANGED pipelineVars
    /\ UNCHANGED <<scanner, calc, session, flask, bucket>>

\* save_tasks: the file takes the tasks, or the IOError of a failed open is
\* printed and the file stays.
Saved(tasks, last) ==
    \/ app' = [tasks |-> tasks, file |-> Some(tasks), last |-> last]
    \/ app' = [tasks |-> tasks, file |-> app.file, last |-> last]

add_task ==
    /\ \E d \in Descriptions :
          IF Strip(d) = ""
          THEN app' = [app EXCEPT !.last = Called("add", d, 0, FALSE, 0)]
          ELSE /\ Len(app.tasks) < MaxTasks
               /\ LET task_id == Len(app.tasks) + 1
                  IN Saved(Append(app.tasks, [id |-> task_id, description |-> Strip(d),
                                              completed |-> FALSE]),
                           Called("add", d, 0, TRUE, task_id))
    /\ AppFrame

complete_task ==
    /\ \E id \in TaskIds :
          LET at == FindTask(app.tasks, id)
          IN IF IsSome(at)
             THEN Saved([app.tasks EXCEPT ![at[1]].completed = TRUE],
                        Called("complete", "", id, TRUE, 0))
             ELSE app' = [app EXCEPT !.last = Called("complete", "", id, FALSE, 0)]
    /\ AppFrame

delete_task ==
    /\ \E id \in TaskIds :
          LET at == FindTask(app.tasks, id)
          IN IF IsSome(at)
             THEN Saved(Renumber(Remove(app.tasks, app.tasks[at[1]])),
                        Called("delete", "", id, TRUE, 0))
             ELSE app' = [app EXCEPT !.last = Called("delete", "", id, FALSE, 0)]
    /\ AppFrame

AppNext ==
    \/ add_task
    \/ complete_task
    \/ delete_task

AppSpec == AppInit /\ [][AppNext]_vars

(* ---- the calculator's divide ---- *)
\* A Python number: an int, or a float that is finite (mag, with the sign
\* that tells 0.0 from -0.0), infinite or not a number.
Ints == {[float |-> FALSE, class |-> "finite", sign |-> sg, mag |-> m] :
            sg \in {-1, 1}, m \in 0..MaxOperand} \
        {[float |-> FALSE, class |-> "finite", sign |-> -1, mag |-> 0]}
Floats == {[float |-> TRUE, class |-> "finite", sign |-> sg, mag |-> m] :
              sg \in {-1, 1}, m \in 0..MaxOperand}
          \cup {[float |-> TRUE, class |-> "inf", sign |-> sg, mag |-> 0] : sg \in {-1, 1}}
          \cup {[float |-> TRUE, class |-> "nan", sign |-> 1, mag |-> 0]}
Numbers == Ints \cup Floats

\* b == 0 in Python: true of 0, 0.0 and -0.0, false of nan and of the infinities.
EqualsZero(b) == b.class = "finite" /\ b.mag = 0

ZeroDivision == Exc("ZeroDivisionError", <<"division by zero">>)

\* a / b: the exact quotient num/den of two finite numbers, or what IEEE
\* arithmetic gives when an operand is not finite.
Quotient(a, b) ==
    IF a.class = "nan" \/ b.class = "nan" \/ (a.class = "inf" /\ b.class = "inf")
    THEN [class |-> "nan", sign |-> 1, num |-> 0, den |-> 1]
    ELSE IF a.class = "inf"
    THEN [class |-> "inf", sign |-> a.sign * b.sign, num |-> 0, den |-> 1]
    ELSE IF b.class = "inf"
    THEN [class |-> "finite", sign |-> a.sign * b.sign, num |-> 0, den |-> 1]
    ELSE [class |-> "finite", sign |-> a.sign * b.sign, num |-> a.mag, den |-> b.mag]

TrueDiv(a, b) == IF EqualsZero(b) THEN Raised(ZeroDivision) ELSE Returned(Some(Quotient(a, b)))

\* divide: if b == 0: return None; return a / b
divide(a, b) == IF EqualsZero(b) THEN Returned(None) ELSE TrueDiv(a, b)

CalcInit ==
    /\ config = [delay |-> 0, max_retries |-> 0, output_format |-> "json"]
    /\ urls = << >>
    /\ file0 = AbsentFile
    /\ RunStart
    /\ calc \in {[a |-> Some(x), b |-> Some(y), out |-> None] : x \in Numbers, y \in Numbers}
    /\ OthersAtRest({"calc"})

\* One call divide(a, b).
Divide ==
    /\ IsSome(calc.a)
    /\ IsNone(calc.out)
    /\ calc' = [calc EXCEPT !.out = Some(divide(calc.a[1], calc.b[1]))]
    /\ UNCHANGED <<config, urls, file0, file, pc, idx, results, result,
                   last_request_time, attempt, now, html, lastDispatch, lastGap,
                   fetchTrace, fetchRet, saveArg, written, runError, gate, backoffs, scanner,
                   session, flask, bucket, app>>

CalcNext == Divide

CalcSpec == CalcInit /\ [][CalcNext]_vars

(* ---- the claims ---- *)
HasOneOutcomePerUrl(rs) ==
    /\ Len(rs) = Len(urls)
    /\ \A i \in 1..Len(rs) : rs[i].url = urls[i]

\* C1: whatever fetches succeed or fail, the loop of main accumulates one
\* outcome per processed URL, the i-th outcome carrying the i-th input URL,
\* and what it hands to save_results has exactly one outcome per input URL.
C1_OneOutcomePerUrl ==
    /\ Len(results) = idx
    /\ idx <= Len(urls)
    /\ \A i \in 1..Len(results) : results[i].url = urls[i]
    /\ IsSome(saveArg) => HasOneOutcomePerUrl(saveArg[1])

C1_Witness ==
    /\ IsSome(saveArg)
    /\ Len(urls) = 2
    /\ urls[1] # urls[2]
    /\ saveArg[1][1].status = None
    /\ saveArg[1][2].status = Some(200)

FetchDone == IsSome(fetchRet)

FailureRecordedAt(n) ==
    IF pc = "append" /\ idx + 1 = n THEN IsSome(result[1].error) ELSE FALSE

SavedWithFailureAt(n) ==
    IF IsSome(saveArg)
    THEN IF HasOneOutcomePerUrl(saveArg[1]) /\ n <= Len(saveArg[1])
         THEN IsSome(saveArg[1][n].error) ELSE FALSE
    ELSE FALSE

FailsOnlyInSave ==
    pc = "failed" =>
        /\ IsSome(saveArg)
        /\ runError \in {Some(UnsupportedFormat(config.output_format)),
                          Some(OpenFailure), Some(WriteFailure)}

\* C2: a failure while one URL is processed, in fetch or in extract, does
\* not stop the run: from the moment the failure is recorded the run goes on
\* until save_results is called with one outcome per input URL; and the run
\* as a whole fails only inside save_results, with the error it raised.
C2_FailureNeverStopsRun ==
    /\ []FailsOnlyInSave
    /\ \A n \in 1..MaxUrls : FailureRecordedAt(n) ~> SavedWithFailureAt(n)

C2_Witness ==
    /\ IsSome(saveArg)
    /\ Len(saveArg[1]) = 2
    /\ IsSome(saveArg[1][1].error)
    /\ saveArg[1][1].status = Some(200)
    /\ saveArg[1][2].status = None
    /\ pc = "done"

\* C3: with max_retries = k >= 1, a finished fetch has made exactly min(i, k)
\* attempts, i the first attempt that succeeds: if an attempt succeeded it
\* was the last one made and its bytes are returned; otherwise k attempts
\* were made and the retries-exhausted error reports k and the last cause.
C3_AttemptsUntilFirstSuccess ==
    (FetchDone /\ config.max_retries >= 1) =>
        LET k == config.max_retries
            t == fetchTrace
            r == fetchRet[1]
        IN IF IsSome(t.firstOk)
           THEN /\ t.n = t.firstOk[1].i
                /\ t.n <= k
                /\ ~r.raised
                /\ r.body = Some(t.firstOk[1].body)
           ELSE /\ t.n = k
                /\ r.raised
                /\ r.e = RetriesExhausted(k, t.lastFailure[1].cause)

\* C4: with max_retries >= 1, whatever kind of failure the attempts end in
\* (timeout, network failure, HTTP status), a fetch that fails has made
\* max_retries attempts and raises the retries-exhausted error, nothing else.
C4_OnlyRetriesExhaustedEscapes ==
    (FetchDone /\ fetchRet[1].raised /\ config.max_retries >= 1) =>
        /\ fetchTrace.n = config.max_retries
        /\ fetchRet[1].e.msg[1] = "Failed after"

\* C5: two consecutive network attempts of a run, of the same URL or of two
\* successive URLs, are at least config.delay apart.
C5_MinGapBetweenAttempts ==
    IsSome(lastGap) => lastGap[1].gap >= config.delay

\* C7: when fetch succeeds the outcome has its status set, its record present
\* and no error; when fetch fails it has the failure's message as error, no
\* record and no status; so the status is set exactly when the record is
\* present and the error absent.
C7_OutcomeFollowsFetch ==
    /\ (pc = "append" /\ FetchDone) =>
          IF fetchRet[1].raised
          THEN /\ result[1].error = Some(fetchRet[1].e.msg)
               /\ IsNone(result[1].data)
               /\ IsNone(result[1].status)
          ELSE /\ IsSome(result[1].status)
               /\ IsSome(result[1].data)
               /\ IsNone(result[1].error)
    /\ \A i \in 1..Len(results) :
          IsSome(results[i].status)
              <=> (IsSome(results[i].data) /\ IsNone(results[i].error))

\* C8: extract returns a record for every document the pipeline hands to
\* it, the bytes fetch returned, and never raises.
C8_ExtractNeverRaises ==
    pc = "extract" => ~extract(html[1]).raised

ExactlyOneOfDataError(r) == IsSome(r.data) # IsSome(r.error)

\* C6: an outcome scrape_url returns has its data present or its error
\* present, never both and never neither.
C6_ExactlyOneOfDataError ==
    /\ pc = "append" => ExactlyOneOfDataError(result[1])
    /\ \A i \in 1..Len(results) : ExactlyOneOfDataError(results[i])

C6_Witness ==
    /\ Len(results) = 2
    /\ results[1].status = Some(200)
    /\ results[2].status = None
    /\ IsSome(results[1].error)
    /\ pc = "main"

Recognized(fmt) == fmt \in {"json", "csv"}

\* C9: save_results called with a format other than json and csv fails with
\* the unsupported-format error and leaves the destination as it found it:
\* not created, not truncated, not modified.
C9_UnsupportedFormatWritesNothing ==
    (IsSome(saveArg) /\ ~Recognized(config.output_format))
        => /\ pc = "failed"
           /\ runError = Some(UnsupportedFormat(config.output_format))
           /\ file = file0

C9_Witness ==
    /\ IsSome(saveArg)
    /\ ~Recognized(config.output_format)
    /\ file0 = OldFile
    /\ Len(saveArg[1]) >= 1

CompleteFile == [exists |-> TRUE, content |-> Encode(config.output_format, saveArg[1])]

\* C10, as claimed: a destination that existed before the run is, when the
\* run has ended, the complete output or the earlier file as it was; a
\* failure of the serialization leaves it untouched.
C10_CompleteOrUntouched ==
    /\ (pc = "done" /\ file0.exists) => (file = CompleteFile \/ file = file0)
    /\ (pc = "failed" /\ file0.exists) => file = file0

\* C10, amended: a run that completes leaves the complete output; a run that
\* fails before the destination is opened (unsupported format, open failure)
\* leaves the earlier file as it was; a run that fails while writing has
\* lost the earlier content: the destination exists and holds exactly the
\* pieces written before the failure, a proper prefix of the new output.
C10_PartialFileAfterWriteFailure ==
    /\ pc = "done" => file = CompleteFile
    /\ pc = "failed" =>
         IF runError = Some(WriteFailure)
         THEN /\ file.exists
              /\ written < Len(CompleteFile.content)
              /\ file.content = SubSeq(CompleteFile.content, 1, written)
         ELSE file = file0

C10_Witness ==
    /\ pc = "failed"
    /\ runError = Some(WriteFailure)
    /\ file0 = OldFile
    /\ written >= 1
    /\ Len(saveArg[1]) >= 1

\* C11: a completed run has written one file that holds exactly one entry per
\* input URL, in input order (a JSON array of N objects between its brackets;
\* the CSV header and N rows), and the entry of every URL that failed carries
\* a non-empty error message and no extracted data.
C11_OneEntryPerUrlInOrder ==
    pc = "done" =>
        /\ file.exists
        /\ Len(saveArg[1]) = Len(urls)
        /\ LET c == file.content
               failed(i) == IsSome(saveArg[1][i].error)
           IN IF config.output_format = "json"
              THEN /\ Len(c) = Len(urls) + 2
                   /\ c[1] = <<"[">>
                   /\ c[Len(c)] = <<"]">>
                   /\ \A i \in 1..Len(urls) :
                        /\ c[i + 1][2] = <<"url", <<"string", urls[i]>> >>
                        /\ failed(i) => /\ c[i + 1][5][2][1] = "string"
                                        /\ c[i + 1][5][2][2] # << >>
                                        /\ c[i + 1][4][2][1] = "null"
              ELSE /\ Len(c) = Len(urls) + 1
                   /\ c[1] = CsvHeader
                   /\ \A i \in 1..Len(urls) :
                        /\ c[i + 1][1] = <<urls[i]>>
                        /\ failed(i) => /\ c[i + 1][5] # << >>
                                        /\ c[i + 1][3] = << >>
                                        /\ c[i + 1][4] = << >>

\* A run over two different URLs, both failed, one after its body arrived, has
\* written its CSV file.
C11_Witness ==
    /\ pc = "done"
    /\ config.output_format = "csv"
    /\ Len(urls) = 2
    /\ urls[1] # urls[2]
    /\ IsSome(saveArg[1][1].error)
    /\ IsSome(saveArg[1][1].status)
    /\ IsNone(saveArg[1][2].status)

\* Reading the JSON file back (json.load).
\* json.load of a number, a string or null.
LoadScalar(j) == IF j[1] = "null" THEN None ELSE Some(j[2])

\* json.load of the data member: the keys of an object come back as str.
LoadData(j) ==
    IF j[1] = "null" THEN None
    ELSE LET m == j[2]
         IN Some([title |-> m[1][2][2],
                  links |-> [i \in 1..Len(m[2][2][2]) |-> LoadScalar(m[2][2][2][i])],
                  meta |-> [i \in 1..Len(m[3][2][2]) |->
                               <<Some(m[3][2][2][i][1]), LoadScalar(m[3][2][2][i][2])>>]])

\* json.load of one object of the array.
LoadEntry(e) ==
    [url |-> LoadScalar(e[2][2]), status |-> LoadScalar(e[3][2]),
     data |-> LoadData(e[4][2]), error |-> LoadScalar(e[5][2])]

\* json.load of the pieces of a complete array.
JsonLoad(content) == [i \in 1..(Len(content) - 2) |-> LoadEntry(content[i + 1])]

\* C12: what a run writes as JSON reads back as the outcomes it produced: as
\* many entries, in the same order, each with the same url, status, data
\* (title, links, meta) and error.
C12_JsonRoundTrip ==
    (pc = "done" /\ config.output_format = "json") =>
        LET parsed == JsonLoad(file.content)
        IN /\ Len(parsed) = Len(results)
           /\ \A i \in 1..Len(results) :
                /\ parsed[i].url = Some(results[i].url)
                /\ parsed[i].status = results[i].status
                /\ parsed[i].data = results[i].data
                /\ parsed[i].error = results[i].error

\* A run has written as JSON one outcome with a status and one without.
C12_Witness ==
    /\ pc = "done"
    /\ config.output_format = "json"
    /\ Len(results) = 2
    /\ IsSome(results[1].status)
    /\ IsNone(results[2].status)

\* The document that extract was called with, and what it returned.
Scanned == IsSome(scanner.out)
ScannedEvents == scanner.doc[1].events
Extracted == scanner.out[1].value[1]

\* C13: over any sequence of tag-open, tag-close and text events, the title of
\* the record is the text run that immediately follows the <title> open tag
\* (the empty title when no text follows it at once); text after the </title>
\* close, text further on and white space between tags never change it.
\* Stated for the documents with one <title> open tag.
C13_TitleIsTextAfterTitleOpen ==
    Scanned =>
        LET es == ScannedEvents
            opens == {i \in 1..Len(es) : es[i].ev = "start" /\ es[i].tag = "title"}
        IN Cardinality(opens) = 1 =>
              LET i == CHOOSE j \in opens : TRUE
              IN Extracted.title = IF i < Len(es) /\ es[i + 1].ev = "data"
                                   THEN es[i + 1].text ELSE ""

\* The values of the href attributes of one tag, in the order they are written.
HrefValues(attrs) ==
    LET hs == SelectSeq(attrs, LAMBDA pr : pr[1] = "href")
    IN [j \in 1..Len(hs) |-> hs[j][2]]

\* The href values of the 'a' open tags of a document, in document order.
RECURSIVE AnchorHrefs(_)
AnchorHrefs(es) ==
    IF es = << >> THEN << >>
    ELSE (IF es[1].ev = "start" /\ es[1].tag = "a" THEN HrefValues(es[1].attrs) ELSE << >>)
         \o AnchorHrefs(Tail(es))

\* C14: the links of the record are the href values of the 'a' open tags, in
\* document order, as written, duplicates kept; every element is a string;
\* no other tag contributes.
C14_LinksAreHrefStrings ==
    Scanned =>
        /\ Extracted.links = AnchorHrefs(ScannedEvents)
        /\ \A i \in 1..Len(Extracted.links) : IsSome(Extracted.links[i])

\* The value of an attribute of a tag that carries it: the last one written.
AttrValue(attrs, name) ==
    LET S == {j \in 1..Len(attrs) : attrs[j][1] = name}
    IN attrs[CHOOSE j \in S : \A k \in S : k <= j][2]

HasAttr(attrs, name) == \E j \in 1..Len(attrs) : attrs[j][1] = name

\* A 'meta' open tag that carries both a name and a content attribute.
CompleteMeta(e) ==
    e.ev = "start" /\ e.tag = "meta" /\ HasAttr(e.attrs, "name") /\ HasAttr(e.attrs, "content")

MetaNames == {Some("x"), Some("k"), None}

\* C15: the meta of the record maps each name to the content of the last
\* 'meta' open tag that carries both a name and a content attribute with that
\* name; a 'meta' tag that lacks either attribute changes nothing.
C15_MetaKeepsLastContent ==
    Scanned =>
        \A n \in MetaNames :
            LET es == ScannedEvents
                S == {i \in 1..Len(es) :
                        IF CompleteMeta(es[i]) THEN AttrValue(es[i].attrs, "name") = n
                        ELSE FALSE}
                at == {j \in 1..Len(Extracted.meta) : Extracted.meta[j][1] = n}
            IN IF S = {} THEN at = {}
               ELSE /\ Cardinality(at) = 1
                    /\ LET last == CHOOSE i \in S : \A k \in S : k <= i
                       IN \A j \in at :
                            Extracted.meta[j][2] = AttrValue(es[last].attrs, "content")

\* A name is given a content, a tag without content follows, then the name is
\* given another content, next to a second name.
C15_Witness ==
    /\ Scanned
    /\ ScannedEvents = <<MetaXY, MetaNameOnly, MetaXZ, MetaKY>>
    /\ Extracted.meta = << <<Some("x"), Some("z")>>, <<Some("k"), Some("y")>> >>

\* C16: every configuration the pipeline runs with has delay >= 0 and
\* max_retries >= 1 (and a timeout > 0, which decides no step of the model),
\* so every call of fetch makes at least one network attempt and ends only
\* in returned bytes or in the retries-exhausted error.
C16_ValidConfigAndFetchEnds ==
    /\ config.delay >= 0
    /\ config.max_retries >= 1
    /\ FetchDone =>
          /\ fetchTrace.n >= 1
          /\ IF fetchRet[1].raised THEN fetchRet[1].e.msg[1] = "Failed after"
             ELSE IsSome(fetchRet[1].body)

\* C17: divide(a, b) raises ZeroDivisionError for every zero divisor (0, 0.0
\* and -0.0) and every numerator, and returns no value then.
C17_ZeroDivisorRaises ==
    (IsSome(calc.out) /\ EqualsZero(calc.b[1])) =>
        IF calc.out[1].raised THEN calc.out[1].e[1].type = "ZeroDivisionError"
        ELSE FALSE

\* C18: within one client a call of _enforce_delay blocks for exactly
\* max(0, delay - elapsed) and then records the time it returns at; so two
\* calls in a row return at least delay apart, and a call made when delay or
\* more has gone by does not block.
C18_GateBlocksForRemainder ==
    IsSome(gate) =>
        LET g == gate[1]
        IN /\ g.slept = IF config.delay - g.elapsed > 0 THEN config.delay - g.elapsed ELSE 0
           /\ last_request_time = g.since + g.elapsed + g.slept
           /\ last_request_time - g.since >= config.delay
           /\ g.elapsed >= config.delay => g.slept = 0

\* A call that found less than the delay gone by since the call before it in
\* the same client, and blocked.
C18_Witness ==
    /\ IsSome(gate)
    /\ IF IsSome(gate) THEN gate[1].since > 0 /\ gate[1].slept > 0 ELSE FALSE
    /\ attempt > 0

\* C19: fetch sleeps to back off only after a failed attempt that is not the
\* last one allowed, the sleep after failed attempt a (from 0) lasting 2^a; a
\* fetch whose k attempts all fail sleeps k - 1 times (1, 2, ..., 2^(k-2));
\* no sleep follows the success or the final failure; with max_retries = 1
\* there is no such sleep.
C19_BackoffOnlyBetweenAttempts ==
    /\ \A i \in 1..Len(backoffs) :
          /\ backoffs[i].after = i - 1
          /\ backoffs[i].slept = 2^(i - 1)
          /\ backoffs[i].after < config.max_retries - 1
    /\ Len(backoffs) <= fetchTrace.n
    /\ pc = "backoff" => (IsNone(fetchTrace.firstOk) /\ IsSome(fetchTrace.lastFailure))
    /\ IsSome(fetchTrace.firstOk) => Len(backoffs) = fetchTrace.n - 1
    /\ FetchDone => Len(backoffs) = (IF fetchTrace.n = 0 THEN 0 ELSE fetchTrace.n - 1)
    /\ (FetchDone /\ IsNone(fetchTrace.firstOk) /\ fetchTrace.n = config.max_retries
          /\ config.max_retries > 0)
         => Len(backoffs) = config.max_retries - 1
    /\ config.max_retries = 1 => backoffs = << >>

\* A fetch of three attempts that all failed has slept twice.
C19_Witness ==
    /\ FetchDone
    /\ config.max_retries = 3
    /\ fetchTrace.n = 3
    /\ IsNone(fetchTrace.firstOk)
    /\ Len(backoffs) = 2

\* C20: between the dispatch of a failed attempt a and the dispatch of attempt
\* a + 1 of the same fetch the backoff sleep of 2^a runs first and
\* _enforce_delay after it, so the two dispatches are at least
\* max(delay, 2^a) apart.  (At pc = "urlopen" attempt a + 1 is being
\* dispatched.)
C20_GapBetweenRetries ==
    (pc = "urlopen" /\ attempt > 0) =>
        /\ IsSome(gate)
        /\ IsSome(lastDispatch)
        /\ gate[1].elapsed >= 2^(attempt - 1)
        /\ now - lastDispatch[1].time >= config.delay
        /\ now - lastDispatch[1].time >= 2^(attempt - 1)

\* A second attempt is dispatched a delay of 2 after the first: the backoff
\* of 1 has run and the gate has slept the rest.
C20_Witness ==
    /\ pc = "urlopen"
    /\ attempt = 1
    /\ config.delay = 2
    /\ IF IsSome(lastDispatch) THEN now - lastDispatch[1].time = 2 ELSE FALSE
    /\ IF IsSome(gate) THEN gate[1].slept = 1 ELSE FALSE

\* The text of a link in a cell.
RECURSIVE JoinedWithCommaSpace(_)
JoinedWithCommaSpace(links) ==
    IF links = << >> THEN << >>
    ELSE IF Len(links) = 1 THEN links[1]
    ELSE links[1] \o <<", ">> \o JoinedWithCommaSpace(Tail(links))

\* C21: the CSV encoding of outcomes starts with the row URL, Status, Title,
\* Links, Error, and the row of an outcome is its url, its status, its title
\* (empty without a record), its links joined by ", " (empty without a
\* record) and its error message (empty without one); writing the rows fails
\* for no record the extractor can produce.
C21_CsvRowsOfAnyRecord ==
    IsSome(scanner.saved) =>
        IF scanner.saved[1].raised THEN FALSE
        ELSE LET c == scanner.saved[1].content
                 d == Extracted
             IN /\ Len(c) = 3
                /\ c[1] = << <<"URL">>, <<"Status">>, <<"Title">>, <<"Links">>, <<"Error">> >>
                /\ c[2] = << <<"https://example.org">>, << >>, << >>, << >>, <<"timed out">> >>
                /\ c[3] = << <<"https://example.com">>, <<"200">>, <<d.title>>,
                             JoinedWithCommaSpace(d.links), << >> >>

\* The records returned so far are the ones the caller was given.
EarlierRecordsKept ==
    \A i \in 1..Len(session.outs) :
        IF i <= Len(session.outs') THEN session.outs'[i] = session.outs[i] ELSE FALSE

C23_TodoIdsUnique ==
    \A i, j \in 1..Len(flask.todos) :
        i # j => flask.todos[i].id # flask.todos[j].id

\* C24: with a clock that never goes backwards, after any sequence of allow()
\* calls and time advances 0 <= tokens <= capacity; allow() returns True
\* exactly when the refilled token count is at least 1 and then removes
\* exactly one token, and returns False leaving the count unchanged
\* otherwise; so with no time passing at most floor(capacity) calls in a row
\* are allowed.
C24_TokenBucket ==
    /\ bucket.tokens >= 0
    /\ bucket.tokens <= bucket.capacity
    /\ IsSome(bucket.last) =>
          LET b == bucket.last[1]
              sum == b.tokens + bucket.refill_rate * (b.clock - b.last_refill)
              refilled == IF sum > bucket.capacity THEN bucket.capacity ELSE sum
          IN /\ b.ret = (refilled >= TokenParts)
             /\ bucket.tokens = IF b.ret THEN refilled - TokenParts ELSE refilled
    /\ bucket.run * TokenParts <= bucket.capacity

\* A call found less than a token in the bucket, time had gone by since the
\* call before it, and the refill let it through.
C24_Witness ==
    IF IsSome(bucket.last)
    THEN /\ bucket.last[1].ret
         /\ bucket.last[1].tokens < TokenParts
         /\ bucket.last[1].clock > bucket.last[1].last_refill
    ELSE FALSE

\* C25: a TodoApp that starts with no tasks has, after any sequence of
\* add_task, complete_task and delete_task calls, the ids 1..n in list order;
\* a call that fails (an empty description, an unknown id) returns None or
\* False and leaves the task list as it was.
C25_TaskIdsContinuous ==
    /\ \A i \in 1..Len(app.tasks) : app.tasks[i].id = i
    /\ IsSome(app.last) =>
          LET c == app.last[1]
              unknown == \A i \in 1..Len(c.before) : c.before[i].id # c.id
          IN /\ (c.op = "add" /\ c.desc \in {"", "  "}) => ~c.ok
             /\ (c.op \in {"complete", "delete"} /\ unknown) => ~c.ok
             /\ ~c.ok => app.tasks = c.before

\* Two tasks are listed and delete_task(3), an unknown id, has failed.
C25_Witness ==
    /\ Len(app.tasks) = 2
    /\ IF IsSome(app.last)
       THEN /\ app.last[1].op = "delete"
            /\ ~app.last[1].ok
            /\ app.last[1].id = 3
       ELSE FALSE
    /\ IF Len(app.tasks) = 2 THEN app.tasks[1].description = "b" ELSE FALSE

====
